---- MODULE Spec2Model ----
(***************************************************************************)
(* Stabilization data pipeline of libopenshot:                             *)
(*   CVStabilization (src/src/CVStabilization.cpp): ProcessClip,           *)
(*     TrackFrameFeatures, ComputeFramesTrajectory, SmoothTrajectory,      *)
(*     GenNewCamPosition, SaveStabilizedData, LoadStabilizedData;          *)
(*   Stabilizer effect (src/src/effects/Stabilizer.cpp): constructor,      *)
(*     LoadStabilizedData, GetFrame.                                       *)
(*                                                                         *)
(* Numbers.  A C++ double is modelled as an exact rational [n, d] in       *)
(* lowest terms (d > 0), or NaN (d = 0).  A protobuf float field is a      *)
(* rational rounded to the grid of multiples of 1/FloatDen.  Angles are    *)
(* counted in quarter turns (pi/2 radians) so that atan2 of the rotation   *)
(* blocks used here is an integer; everything downstream is linear.        *)
(* Pixel buffers are opaque: a frame is identified by its frame number,    *)
(* an empty cv::Mat is the empty sequence.                                 *)
(***************************************************************************)
EXTENDS Integers, Sequences, FiniteSets, TLC

\* ------------------------------------------------------------- bounds
\* largest video_length of a clip handed to ProcessClip
MaxVideoLength == 4
\* cap on the length of prev_to_cur_transform over the life of one object
MaxDeltas == 4
\* largest smoothing window handed to the constructor
MaxWindow == 2
\* largest number of frame records in a file found on disk at start
MaxRecords == 2
\* largest frame id in a file found on disk at start
MaxId == 1
\* largest frame_number handed to Stabilizer::GetFrame
MaxFrameNumber == 1
\* most pairs of a clip analysed before the store is used
MaxStoredDeltas == 1

\* ------------------------------------------------------------- widths
\* size_t arithmetic of "i+j" wraps modulo 2^64; scaled down to 2^16
SizeMod == 65536
\* a float keeps 24 significant bits; scaled down to the grid of integers
FloatDen == 1

\* ------------------------------------------------------------- doubles
RECURSIVE GCD(_, _)
GCD(a, b) == IF b = 0 THEN a ELSE GCD(b, a % b)

Abs(n) == IF n < 0 THEN -n ELSE n

NaN == [n |-> 0, d |-> 0]

IsNaN(r) == r.d = 0

\* n/d (d # 0) in lowest terms with a positive denominator
Norm(n, d) ==
    LET g == GCD(Abs(n), Abs(d))
        sign == IF d < 0 THEN -1 ELSE 1
    IN [n |-> (sign * n) \div g, d |-> Abs(d) \div g]

Rat(k) == [n |-> k, d |-> 1]

Zero == Rat(0)

\* a + b on doubles
Add(a, b) ==
    IF IsNaN(a) \/ IsNaN(b) THEN NaN
    ELSE Norm(a.n * b.d + b.n * a.d, a.d * b.d)

\* a - b on doubles
Sub(a, b) ==
    IF IsNaN(a) \/ IsNaN(b) THEN NaN
    ELSE Norm(a.n * b.d - b.n * a.d, a.d * b.d)

\* sum / count with an int count: 0.0 / 0 is NaN (an empty window has
\* summed nothing, so the dividend is 0.0 whenever count is 0)
DivCount(a, count) ==
    IF IsNaN(a) \/ count = 0 THEN NaN
    ELSE Norm(a.n, a.d * count)

\* double -> float: round to the nearest multiple of 1/FloatDen
ToFloat(a) ==
    IF IsNaN(a) THEN NaN
    ELSE Norm((2 * a.n * FloatDen + a.d) \div (2 * a.d), FloatDen)

\* ------------------------------------------------------------- data types
TransformParam(dx, dy, da) == [dx |-> dx, dy |-> dy, da |-> da]

CamTrajectory(x, y, a) == [x |-> x, y |-> y, a |-> a]

\* an empty std::map / an empty cv::Mat
EmptyMap == <<>>

EmptyMat == <<>>

\* keys of a std::map in iteration (ascending) order
RECURSIVE SortedKeys(_)
SortedKeys(S) ==
    IF S = {} THEN <<>>
    ELSE LET m == CHOOSE x \in S : \A y \in S : x <= y
         IN <<m>> \o SortedKeys(S \ {m})

\* ------------------------------------------------------------- estimator
\* atan2(sin, cos) in quarter turns, for the axis-aligned rotation blocks
Atan2(s, c) ==
    IF s = 0 /\ c > 0 THEN Rat(0)
    ELSE IF s > 0 /\ c = 0 THEN Rat(1)
    ELSE IF s = 0 /\ c < 0 THEN Rat(2)
    ELSE Rat(-1)

\* the 2x3 matrices estimateRigidTransform may return, by the entries the
\* code reads: T(0,0), T(1,0), T(0,2), T(1,2)
Mat(m00, m10, m02, m12) == <<[m00 |-> m00, m10 |-> m10, m02 |-> m02, m12 |-> m12]>>

Estimates ==
    { Mat(1, 0, 1, 0), Mat(1, 0, -1, 0), Mat(0, 1, 0, 1) }

\* what estimateRigidTransform returns: a matrix, or an empty one
EstimatorOutcomes == Estimates \cup {EmptyMat}

\* ------------------------------------------------------------- pipeline
\* CVStabilization::ComputeFramesTrajectory: running sum of the deltas,
\* as a vector (a sequence; vector index i is sequence index i+1)
ComputeFramesTrajectory(ptc) ==
    LET F[i \in 0..Len(ptc)] ==
            IF i = 0
            THEN [x |-> Zero, y |-> Zero, a |-> Zero, trajectory |-> <<>>]
            ELSE LET p == F[i - 1]
                     x == Add(p.x, ptc[i].dx)
                     y == Add(p.y, ptc[i].dy)
                     a == Add(p.a, ptc[i].da)
                 IN [x |-> x, y |-> y, a |-> a,
                     trajectory |-> Append(p.trajectory, CamTrajectory(x, y, a))]
    IN F[Len(ptc)].trajectory

\* the inner loop of SmoothTrajectory from j on: "i+j" is computed in
\* size_t, so "i+j >= 0" always holds and a negative i+j wraps to a huge
\* index that "i+j < trajectory.size()" rejects
RECURSIVE SmoothWindow(_, _, _, _, _)
SmoothWindow(trajectory, W, i, j, acc) ==
    IF j > W THEN acc
    ELSE LET idx == (i + j) % SizeMod
         IN IF idx >= 0 /\ idx < Len(trajectory)
            THEN SmoothWindow(trajectory, W, i, j + 1,
                     [sum_x |-> Add(acc.sum_x, trajectory[idx + 1].x),
                      sum_y |-> Add(acc.sum_y, trajectory[idx + 1].y),
                      sum_a |-> Add(acc.sum_a, trajectory[idx + 1].a),
                      count |-> acc.count + 1])
            ELSE SmoothWindow(trajectory, W, i, j + 1, acc)

\* the divisor of the three averages
\* (faulty variant: the full window width, not the neighbours summed)
SmoothDivisorFullWindow(acc, W) == 2 * W + 1

SmoothDivisor(acc, W) == acc.count

\* one iteration of the outer loop of SmoothTrajectory: smoothed_trajectory[i]
SmoothEntry(trajectory, W, i) ==
    LET acc == SmoothWindow(trajectory, W, i, -W,
                   [sum_x |-> Zero, sum_y |-> Zero, sum_a |-> Zero, count |-> 0])
        avg_a == DivCount(acc.sum_a, SmoothDivisor(acc, W))
        avg_x == DivCount(acc.sum_x, SmoothDivisor(acc, W))
        avg_y == DivCount(acc.sum_y, SmoothDivisor(acc, W))
    IN CamTrajectory(avg_x, avg_y, avg_a)

\* CVStabilization::SmoothTrajectory
SmoothTrajectory(trajectory, W) ==
    [i \in 0..(Len(trajectory) - 1) |-> SmoothEntry(trajectory, W, i)]

\* "target - current" of GenNewCamPosition
\* (faulty variant: the raw delta taken for the current position)
GenDiffFromDelta(target, current, delta) == Sub(target, delta)

GenDiff(target, current, delta) == Sub(target, current)

\* CVStabilization::GenNewCamPosition
GenNewCamPosition(ptc, smoothed_trajectory) ==
    LET F[i \in 0..Len(ptc)] ==
            IF i = 0
            THEN [x |-> Zero, y |-> Zero, a |-> Zero, out |-> EmptyMap]
            ELSE LET p == F[i - 1]
                     x == Add(p.x, ptc[i].dx)
                     y == Add(p.y, ptc[i].dy)
                     a == Add(p.a, ptc[i].da)
                     diff_x == GenDiff(smoothed_trajectory[i - 1].x, x, ptc[i].dx)
                     diff_y == GenDiff(smoothed_trajectory[i - 1].y, y, ptc[i].dy)
                     diff_a == GenDiff(smoothed_trajectory[i - 1].a, a, ptc[i].da)
                     dx == Add(ptc[i].dx, diff_x)
                     dy == Add(ptc[i].dy, diff_y)
                     da == Add(ptc[i].da, diff_a)
                 IN [x |-> x, y |-> y, a |-> a,
                     out |-> [k \in 0..(i - 1) |->
                                 IF k = i - 1 THEN TransformParam(dx, dy, da)
                                 ELSE p.out[k]]]
    IN F[Len(ptc)].out

\* ------------------------------------------------------------- store
\* a file on disk: a parsable message with its frame records, or anything
\* ParseFromIstream rejects (missing, unreadable, malformed)
Message(frames) == [parsed |-> TRUE, frame |-> frames]

Unparsable == [parsed |-> FALSE, frame |-> <<>>]

\* CVStabilization::AddFrameDataToProto: the double fields narrow to float
AddFrameDataToProto(trajData, transData, frame_number) ==
    [id |-> frame_number,
     a |-> ToFloat(trajData.a), x |-> ToFloat(trajData.x), y |-> ToFloat(trajData.y),
     da |-> ToFloat(transData.da), dx |-> ToFloat(transData.dx),
     dy |-> ToFloat(transData.dy)]

\* the message SaveStabilizedData builds: both maps are walked in key
\* order by two iterators advanced together
StabilizationMessage(traj, trans) ==
    LET tk == SortedKeys(DOMAIN traj)
        sk == SortedKeys(DOMAIN trans)
    IN Message([k \in 1..Len(tk) |->
                   AddFrameDataToProto(traj[tk[k]], trans[sk[k]], tk[k])])

\* the maps after the parse step of CVStabilization::LoadStabilizedData
\* (faulty variant: the maps are cleared before the message is parsed)
LoadStabilizedDataClearFirst(file, traj, trans) ==
    IF ~file.parsed
    THEN [ret |-> FALSE, trajectoryData |-> EmptyMap, transformationData |-> EmptyMap]
    ELSE [ret |-> TRUE,
          trajectoryData |->
              [i \in 0..(Len(file.frame) - 1) |->
                  CamTrajectory(file.frame[i + 1].x, file.frame[i + 1].y,
                                file.frame[i + 1].a)],
          transformationData |->
              [i \in 0..(Len(file.frame) - 1) |->
                  TransformParam(file.frame[i + 1].dx, file.frame[i + 1].dy,
                                 file.frame[i + 1].da)]]

\* CVStabilization::LoadStabilizedData on the file's content
LoadStabilizedDataCV(file, traj, trans) ==
    IF ~file.parsed
    THEN [ret |-> FALSE, trajectoryData |-> traj, transformationData |-> trans]
    ELSE [ret |-> TRUE,
          trajectoryData |->
              [i \in 0..(Len(file.frame) - 1) |->
                  CamTrajectory(file.frame[i + 1].x, file.frame[i + 1].y,
                                file.frame[i + 1].a)],
          transformationData |->
              [i \in 0..(Len(file.frame) - 1) |->
                  TransformParam(file.frame[i + 1].dx, file.frame[i + 1].dy,
                                 file.frame[i + 1].da)]]

\* Stabilizer::LoadStabilizedData on the file's content
LoadStabilizedDataEffect(file, traj, trans) ==
    IF ~file.parsed
    THEN [ret |-> FALSE, trajectoryData |-> traj, transformationData |-> trans]
    ELSE [ret |-> TRUE,
          trajectoryData |->
              [i \in 0..(Len(file.frame) - 1) |->
                  CamTrajectory(file.frame[i + 1].x, file.frame[i + 1].y,
                                file.frame[i + 1].a)],
          transformationData |->
              [i \in 0..(Len(file.frame) - 1) |->
                  TransformParam(file.frame[i + 1].dx, file.frame[i + 1].dy,
                                 file.frame[i + 1].da)]]

\* ------------------------------------------------------------- state
VARIABLES
    smoothingWindow,        \* CVStabilization::smoothingWindow
    prev_grey,              \* CVStabilization::prev_grey (EmptyMat or <<frame>>)
    last_T,                 \* CVStabilization::last_T (EmptyMat or a matrix)
    prev_to_cur_transform,  \* CVStabilization::prev_to_cur_transform
    trajectoryData,         \* CVStabilization::trajectoryData
    transformationData,     \* CVStabilization::transformationData
    pc,                     \* where the caller of CVStabilization stands
    videoLenght,            \* ProcessClip's local videoLenght
    frame_number,           \* ProcessClip's loop variable
    clip,                   \* estimator outcomes of the pairs of the current clip
    faulted,                \* an empty matrix has been read out of bounds
    disk,                   \* content of the stabilization data file
    effect,                 \* whether the Stabilizer effect is constructed
    effectTrajectoryData,       \* Stabilizer::trajectoryData
    effectTransformationData,   \* Stabilizer::transformationData
    last                    \* the last call that returned, with its result

vars == <<smoothingWindow, prev_grey, last_T, prev_to_cur_transform,
          trajectoryData, transformationData, pc, videoLenght, frame_number,
          clip, faulted, disk, effect, effectTrajectoryData,
          effectTransformationData, last>>

cvVars == <<smoothingWindow, prev_grey, last_T, prev_to_cur_transform,
            trajectoryData, transformationData, pc, videoLenght, frame_number,
            clip, faulted>>

effectVars == <<effect, effectTrajectoryData, effectTransformationData>>

ZeroParam == TransformParam(Zero, Zero, Zero)

Returned(op, ret, fn, T) == [op |-> op, ret |-> ret, frame_number |-> fn, T |-> T]

\* ------------------------------------------------------------- inputs
\* the window set by the default constructor
DefaultWindow == 30

\* the windows an object is constructed with: CVStabilization() sets the
\* default, CVStabilization(int) takes any int, a negative one included
Windows == ((-1)..MaxWindow) \cup {DefaultWindow}

\* the record a foreign writer stored for frame id
FrameRecord(id) ==
    [id |-> id, a |-> Rat(id), x |-> Rat(id + 1), y |-> Rat(0),
     da |-> Rat(-id), dx |-> Rat(-(id + 1)), dy |-> Rat(1)]

RECURSIVE SeqsUpTo(_, _)
SeqsUpTo(S, n) ==
    IF n = 0 THEN {<<>>}
    ELSE LET shorter == SeqsUpTo(S, n - 1)
         IN shorter \cup {Append(q, e) : q \in shorter, e \in S}

\* what the data file may hold before the first call
InitFiles ==
    {Unparsable} \cup
    {Message(q) : q \in SeqsUpTo({FrameRecord(id) : id \in 0..MaxId}, MaxRecords)}

\* what an out-of-bounds read of an empty matrix may yield
GarbageParams == {TransformParam(Rat(2), Rat(2), Rat(2))}

\* what map::operator[] stores for a missing key: a TransformParam built
\* by its default constructor (zeroed, or left uninitialized)
DefaultParams == {ZeroParam, TransformParam(Rat(2), Rat(2), Rat(2))}

Init ==
    /\ smoothingWindow \in Windows
    /\ prev_grey = EmptyMat
    /\ last_T = EmptyMat
    /\ prev_to_cur_transform = <<>>
    /\ trajectoryData = EmptyMap
    /\ transformationData = EmptyMap
    /\ pc = "idle"
    /\ videoLenght = 0
    /\ frame_number = 0
    /\ clip = <<>>
    /\ faulted = FALSE
    /\ disk = Unparsable
    /\ effect = "none"
    /\ effectTrajectoryData = EmptyMap
    /\ effectTransformationData = EmptyMap
    /\ last = Returned("CVStabilization", TRUE, 0, ZeroParam)

\* ------------------------------------------------------------- analysis
\* lines 100-102: dx, dy and da read out of the 2x3 matrix T
Decompose(T) ==
    TransformParam(Rat(T[1].m02), Rat(T[1].m12), Atan2(T[1].m10, T[1].m00))

\* ProcessClip, lines 55-62, on the deltas collected by the loop
Trailing(ptc) ==
    LET trajectory == ComputeFramesTrajectory(ptc)
        smoothed == SmoothTrajectory(trajectory, smoothingWindow)
    IN /\ trajectoryData' = smoothed
       /\ transformationData' = GenNewCamPosition(ptc, smoothed)

\* the end of one loop iteration of ProcessClip: the next frame, or, after
\* frame videoLenght, the trailing computations and the return
LoopStep(ptc) ==
    IF frame_number < videoLenght
    THEN /\ frame_number' = frame_number + 1
         /\ pc' = "tracking"
         /\ UNCHANGED <<trajectoryData, transformationData, last>>
    ELSE /\ frame_number' = frame_number
         /\ pc' = "idle"
         /\ Trailing(ptc)
         /\ last' = Returned("ProcessClip", TRUE, frame_number, ZeroParam)

\* ProcessClip is entered: video_length is read, the loop starts at frame 0
ProcessClip(video_length) ==
    /\ pc = "idle"
    /\ Len(prev_to_cur_transform) + video_length
           + (IF prev_grey = EmptyMat THEN 0 ELSE 1) <= MaxDeltas
    /\ pc' = "tracking"
    /\ videoLenght' = video_length
    /\ frame_number' = 0
    /\ clip' = <<>>
    /\ UNCHANGED <<smoothingWindow, prev_grey, last_T, prev_to_cur_transform,
                   trajectoryData, transformationData, faulted, disk, effectVars,
                   last>>

\* TrackFrameFeatures on the first frame an object sees: it is only stored
TrackFirstFrame ==
    /\ pc = "tracking"
    /\ prev_grey = EmptyMat
    /\ prev_grey' = <<frame_number>>
    /\ clip' = Append(clip, [called |-> FALSE, T |-> EmptyMat])
    /\ LoopStep(prev_to_cur_transform)
    /\ UNCHANGED <<smoothingWindow, last_T, prev_to_cur_transform, videoLenght,
                   faulted, disk, effectVars>>

\* TrackFrameFeatures with a transform at hand: the estimator's, or, when
\* it found none, the last known good one
TrackFrameFeatures(estimate) ==
    /\ pc = "tracking"
    /\ prev_grey # EmptyMat
    /\ LET T == IF estimate = EmptyMat THEN last_T ELSE estimate
       IN /\ T # EmptyMat
          /\ last_T' = T
          /\ prev_to_cur_transform' = Append(prev_to_cur_transform, Decompose(T))
    /\ prev_grey' = <<frame_number>>
    /\ clip' = Append(clip, [called |-> TRUE, T |-> estimate])
    /\ LoopStep(prev_to_cur_transform')
    /\ UNCHANGED <<smoothingWindow, videoLenght, faulted, disk, effectVars>>

\* TrackFrameFeatures with no transform from the estimator and an empty
\* last_T: T stays empty and T.at<double>() reads outside it.  The read
\* faults (the process dies), is caught by a checked build (the exception
\* leaves ProcessClip), or yields whatever the memory holds.
TrackFrameFeaturesNoTransform ==
    /\ pc = "tracking"
    /\ prev_grey # EmptyMat
    /\ last_T = EmptyMat
    /\ clip' = Append(clip, [called |-> TRUE, T |-> EmptyMat])
    /\ faulted' = TRUE
    /\ \/ /\ pc' = "crashed"
          /\ UNCHANGED <<prev_grey, last_T, prev_to_cur_transform, frame_number,
                         trajectoryData, transformationData, last>>
       \/ /\ pc' = "idle"
          /\ last' = Returned("ProcessClip", FALSE, frame_number, ZeroParam)
          /\ UNCHANGED <<prev_grey, last_T, prev_to_cur_transform, frame_number,
                         trajectoryData, transformationData>>
       \/ /\ \E g \in GarbageParams :
                 prev_to_cur_transform' = Append(prev_to_cur_transform, g)
          /\ last_T' = EmptyMat
          /\ prev_grey' = <<frame_number>>
          /\ LoopStep(prev_to_cur_transform')
    /\ UNCHANGED <<smoothingWindow, videoLenght, disk, effectVars>>

\* ------------------------------------------------------------- store
\* CVStabilization::SaveStabilizedData: the message is written over the
\* file, or the stream cannot be written and false is returned
SaveStabilizedData ==
    /\ pc = "idle"
    /\ \/ /\ disk' = StabilizationMessage(trajectoryData, transformationData)
          /\ last' = Returned("SaveStabilizedData", TRUE, 0, ZeroParam)
       \/ /\ disk' = disk
          /\ last' = Returned("SaveStabilizedData", FALSE, 0, ZeroParam)
    /\ UNCHANGED <<cvVars, effectVars>>

\* CVStabilization::LoadStabilizedData
LoadStabilizedData ==
    /\ pc = "idle"
    /\ LET r == LoadStabilizedDataCV(disk, trajectoryData, transformationData)
       IN /\ trajectoryData' = r.trajectoryData
          /\ transformationData' = r.transformationData
          /\ last' = Returned("LoadStabilizedData", r.ret, 0, ZeroParam)
    /\ UNCHANGED <<smoothingWindow, prev_grey, last_T, prev_to_cur_transform, pc,
                   videoLenght, frame_number, clip, faulted, disk, effectVars>>

\* ------------------------------------------------------------- effect
\* Stabilizer::Stabilizer(path): the load's result is dropped
Stabilizer ==
    /\ effect = "none"
    /\ effect' = "constructed"
    /\ LET r == LoadStabilizedDataEffect(disk, EmptyMap, EmptyMap)
       IN /\ effectTrajectoryData' = r.trajectoryData
          /\ effectTransformationData' = r.transformationData
          /\ last' = Returned("Stabilizer", r.ret, 0, ZeroParam)
    /\ UNCHANGED <<cvVars, disk>>

\* Stabilizer::Stabilizer(): nothing is loaded
StabilizerDefault ==
    /\ effect = "none"
    /\ effect' = "constructed"
    /\ last' = Returned("StabilizerDefault", TRUE, 0, ZeroParam)
    /\ UNCHANGED <<cvVars, disk, effectTrajectoryData, effectTransformationData>>

\* Stabilizer::LoadStabilizedData
EffectLoadStabilizedData ==
    /\ effect = "constructed"
    /\ LET r == LoadStabilizedDataEffect(disk, effectTrajectoryData,
                                         effectTransformationData)
       IN /\ effectTrajectoryData' = r.trajectoryData
          /\ effectTransformationData' = r.transformationData
          /\ last' = Returned("EffectLoadStabilizedData", r.ret, 0, ZeroParam)
    /\ UNCHANGED <<cvVars, disk, effect>>

\* Stabilizer::GetFrame: transformationData[frame_number] is map::operator[],
\* which stores a default-constructed TransformParam under a missing key;
\* the frame is then warped with the entry's da, dx, dy and returned
GetFrame(fn) ==
    /\ effect = "constructed"
    /\ \/ /\ fn \in DOMAIN effectTransformationData
          /\ effectTransformationData' = effectTransformationData
          /\ last' = Returned("GetFrame", TRUE, fn, effectTransformationData[fn])
       \/ /\ fn \notin DOMAIN effectTransformationData
          /\ \E d \in DefaultParams :
                /\ effectTransformationData' =
                       [k \in DOMAIN effectTransformationData \cup {fn} |->
                           IF k = fn THEN d ELSE effectTransformationData[k]]
                /\ last' = Returned("GetFrame", TRUE, fn, d)
    /\ UNCHANGED <<cvVars, disk, effect, effectTrajectoryData>>

\* ------------------------------------------------------------- specifications
\* The analysis pass: one CVStabilization object, fed clip after clip.
Next ==
    \/ \E n \in 1..MaxVideoLength : ProcessClip(n)
    \/ TrackFirstFrame
    \/ \E e \in EstimatorOutcomes : TrackFrameFeatures(e)
    \/ TrackFrameFeaturesNoTransform

Spec == Init /\ [][Next]_vars

\* The store and the rendering pass.  The CVStabilization object is new, or
\* has returned from ProcessClip over a clip whose pairs were all estimated
\* (ests, one matrix per pair); the data file holds anything.
AnalysedClips == SeqsUpTo(Estimates, MaxStoredDeltas)

InitStore ==
    /\ smoothingWindow \in Windows
    /\ \E ests \in AnalysedClips :
          LET ptc == [k \in 1..Len(ests) |-> Decompose(ests[k])]
              smoothed == SmoothTrajectory(ComputeFramesTrajectory(ptc),
                                           smoothingWindow)
          IN /\ prev_to_cur_transform = ptc
             /\ prev_grey = IF ests = <<>> THEN EmptyMat ELSE <<Len(ests)>>
             /\ last_T = IF ests = <<>> THEN EmptyMat ELSE ests[Len(ests)]
             /\ trajectoryData = smoothed
             /\ transformationData = GenNewCamPosition(ptc, smoothed)
             /\ videoLenght = Len(ests)
             /\ frame_number = Len(ests)
             /\ clip = IF ests = <<>> THEN <<>>
                       ELSE <<[called |-> FALSE, T |-> EmptyMat]>> \o
                            [k \in 1..Len(ests) |-> [called |-> TRUE, T |-> ests[k]]]
             /\ last = IF ests = <<>>
                       THEN Returned("CVStabilization", TRUE, 0, ZeroParam)
                       ELSE Returned("ProcessClip", TRUE, Len(ests), ZeroParam)
    /\ pc = "idle"
    /\ faulted = FALSE
    /\ disk \in InitFiles
    /\ effect = "none"
    /\ effectTrajectoryData = EmptyMap
    /\ effectTransformationData = EmptyMap

NextStore ==
    \/ SaveStabilizedData
    \/ LoadStabilizedData
    \/ Stabilizer
    \/ StabilizerDefault
    \/ EffectLoadStabilizedData
    \/ \E fn \in 0..MaxFrameNumber : GetFrame(fn)

SpecStore == InitStore /\ [][NextStore]_vars

\* ------------------------------------------------------------- properties
\* ProcessClip has returned normally and nothing was called since
ProcessClipReturned ==
    pc = "idle" /\ last.op = "ProcessClip" /\ last.ret

\* the run that returned started on an object that had tracked nothing
RunWasFresh == clip # <<>> /\ ~clip[1].called

\* sum of vals[j] over j in S
RECURSIVE SumAt(_, _)
SumAt(vals, S) ==
    IF S = {} THEN Zero
    ELSE LET j == CHOOSE k \in S : TRUE
         IN Add(vals[j], SumAt(vals, S \ {j}))

Mean(vals, S) == DivCount(SumAt(vals, S), Cardinality(S))

Max(a, b) == IF a >= b THEN a ELSE b

Min(a, b) == IF a <= b THEN a ELSE b

\* the raw trajectory of the deltas, keyed 0..n-1
RawTrajectory ==
    LET C == ComputeFramesTrajectory(prev_to_cur_transform)
    IN [i \in 0..(Len(C) - 1) |-> C[i + 1]]

\* the in-range neighbours of index i for window W in a trajectory of n
Neighbours(i, W, n) == {j \in 0..(n - 1) : Max(0, i - W) <= j /\ j <= Min(n - 1, i + W)}

\* C5: after ProcessClip with a window W >= 0, trajectoryData has the keys
\* 0..n-1 and entry i is the mean of the raw trajectory over the in-range
\* indices of [i-W, i+W], divided by their number; W = 0 gives the raw
\* trajectory and W >= n the mean of the whole trajectory at every index.
C5_SmoothIsTruncatedWindowMean ==
    (ProcessClipReturned /\ smoothingWindow >= 0) =>
        LET n == Len(prev_to_cur_transform)
            W == smoothingWindow
            raw == RawTrajectory
            xs == [j \in DOMAIN raw |-> raw[j].x]
            ys == [j \in DOMAIN raw |-> raw[j].y]
            as == [j \in DOMAIN raw |-> raw[j].a]
        IN /\ DOMAIN trajectoryData = 0..(n - 1)
           /\ \A i \in 0..(n - 1) :
                 /\ Neighbours(i, W, n) # {}
                 /\ trajectoryData[i].x = Mean(xs, Neighbours(i, W, n))
                 /\ trajectoryData[i].y = Mean(ys, Neighbours(i, W, n))
                 /\ trajectoryData[i].a = Mean(as, Neighbours(i, W, n))
           /\ (W = 0 => \A i \in 0..(n - 1) : trajectoryData[i] = raw[i])
           /\ (W >= n => \A i \in 0..(n - 1) :
                  trajectoryData[i] =
                      CamTrajectory(Mean(xs, 0..(n - 1)), Mean(ys, 0..(n - 1)),
                                    Mean(as, 0..(n - 1))))

\* a run with window 1 over four deltas whose windows are cut at both ends
C5_Witness ==
    /\ ProcessClipReturned
    /\ smoothingWindow = 1
    /\ Len(prev_to_cur_transform) = 4
    /\ trajectoryData[0] # RawTrajectory[0]
    /\ trajectoryData[3] # RawTrajectory[3]

\* the deltas of the worked example
ExampleDeltas ==
    <<TransformParam(Rat(1), Zero, Zero), TransformParam(Rat(1), Zero, Zero),
      TransformParam(Rat(-1), Zero, Zero), TransformParam(Rat(1), Zero, Zero)>>

\* C6: after ProcessClip, trajectoryData and transformationData have the
\* keys 0..n-1 and transformationData[i] = delta[i] + (smoothed[i] - C[i])
\* in every component, C being ComputeFramesTrajectory's running sum; for
\* the example deltas and window 1, C.x = 1,2,1,2, smoothed[1].x = 4/3 and
\* transformationData[1].dx = 1/3.
C6_TransformIsDeltaPlusDifference ==
    ProcessClipReturned =>
        LET n == Len(prev_to_cur_transform)
            d == prev_to_cur_transform
            C == ComputeFramesTrajectory(prev_to_cur_transform)
        IN /\ DOMAIN trajectoryData = 0..(n - 1)
           /\ DOMAIN transformationData = 0..(n - 1)
           /\ \A i \in 0..(n - 1) :
                 /\ transformationData[i].dx =
                        Add(d[i + 1].dx, Sub(trajectoryData[i].x, C[i + 1].x))
                 /\ transformationData[i].dy =
                        Add(d[i + 1].dy, Sub(trajectoryData[i].y, C[i + 1].y))
                 /\ transformationData[i].da =
                        Add(d[i + 1].da, Sub(trajectoryData[i].a, C[i + 1].a))
           /\ (d = ExampleDeltas /\ smoothingWindow = 1) =>
                 /\ [i \in 1..4 |-> C[i].x] = <<Rat(1), Rat(2), Rat(1), Rat(2)>>
                 /\ trajectoryData[1].x = [n |-> 4, d |-> 3]
                 /\ transformationData[1].dx = [n |-> 1, d |-> 3]

\* ProcessClip has returned for the example deltas and window 1
C6_Witness ==
    /\ ProcessClipReturned
    /\ prev_to_cur_transform = ExampleDeltas
    /\ smoothingWindow = 1
    /\ transformationData[1].dx = [n |-> 1, d |-> 3]

\* C7: ProcessClip on a fresh object and a clip of N = video_length frames
\* leaves exactly N-1 MotionDeltas, and a 1-frame clip leaves both maps
\* empty.  (Stated for the objects with a window W >= 0 that have read no
\* empty matrix.)
C7_FreshRunLeavesNMinusOneDeltas ==
    (ProcessClipReturned /\ RunWasFresh /\ ~faulted /\ smoothingWindow >= 0) =>
        /\ Len(prev_to_cur_transform) = videoLenght - 1
        /\ (videoLenght = 1 =>
               trajectoryData = EmptyMap /\ transformationData = EmptyMap)

\* C9: no CVStabilization object has a negative smoothing window, so no
\* run of SmoothTrajectory divides by a count of zero.
C9_NoNegativeWindow ==
    (ProcessClipReturned /\ ~faulted) =>
        /\ smoothingWindow >= 0
        /\ \A i \in DOMAIN trajectoryData :
              /\ ~IsNaN(trajectoryData[i].x)
              /\ ~IsNaN(trajectoryData[i].y)
              /\ ~IsNaN(trajectoryData[i].a)

\* the transform TrackFrameFeatures uses for pair k of a clip tracked by a
\* new object (clip[1] is the frame that is only stored)
RECURSIVE FreshTransform(_, _)
FreshTransform(c, k) ==
    IF c[k].T # EmptyMat \/ k <= 2 THEN c[k].T ELSE FreshTransform(c, k - 1)

\* the deltas a new object collects over the clip
FreshDeltas(c) ==
    [k \in 1..(Len(c) - 1) |-> Decompose(FreshTransform(c, k + 1))]

\* C10: after any sequence of ProcessClip calls the MotionDeltas,
\* trajectoryData and transformationData are those a new object with the
\* same window produces for the clip of the last call (stated for clips a
\* new object can track, the first pair having an estimate, and for the
\* objects with a window W >= 0 that have read no empty matrix).
C10_EveryRunIsFresh ==
    (ProcessClipReturned /\ Len(clip) >= 2 /\ clip[2].T # EmptyMat
        /\ ~faulted /\ smoothingWindow >= 0) =>
        LET fresh == FreshDeltas(clip)
            smoothed == SmoothTrajectory(ComputeFramesTrajectory(fresh),
                                         smoothingWindow)
        IN /\ prev_to_cur_transform = fresh
           /\ trajectoryData = smoothed
           /\ transformationData = GenNewCamPosition(fresh, smoothed)

\* a step that is a call of TrackFrameFeatures past the first frame, in
\* which the estimator returns no transform
TrackedWithoutEstimate ==
    /\ pc = "tracking"
    /\ Len(clip') = Len(clip) + 1
    /\ clip'[Len(clip')].called
    /\ clip'[Len(clip')].T = EmptyMat

\* C4: a call of TrackFrameFeatures in which the estimator returns no
\* transform completes, appends exactly one MotionDelta, the decomposition
\* of the most recent successfully estimated transform, and updates the
\* cached previous frame; also on the first pair.  (Stated for the objects
\* with a window W >= 0.)
C4_TrackingNeverFails ==
    [][(TrackedWithoutEstimate /\ smoothingWindow >= 0) =>
          /\ pc' # "crashed"
          /\ ~(last'.op = "ProcessClip" /\ ~last'.ret)
          /\ last_T # EmptyMat
          /\ prev_to_cur_transform' =
                 Append(prev_to_cur_transform, Decompose(last_T))
          /\ prev_grey' = <<frame_number>>]_vars

\* ------------------------------------------------------------- store properties
\* the values of frame record r as the two maps hold them
RecordTrajectory(r) == CamTrajectory(r.x, r.y, r.a)

RecordTransform(r) == TransformParam(r.dx, r.dy, r.da)

\* the last record of the file that carries frame id k
LastWithId(file, k) ==
    LET at == CHOOSE i \in 1..Len(file.frame) :
                  /\ file.frame[i].id = k
                  /\ \A j \in (i + 1)..Len(file.frame) : file.frame[j].id # k
    IN file.frame[at]

Ids(file) == {file.frame[i].id : i \in 1..Len(file.frame)}

\* the two maps hold the file's records under the records' ids
KeyedById(traj, trans, file) ==
    /\ DOMAIN traj = Ids(file)
    /\ DOMAIN trans = Ids(file)
    /\ \A k \in Ids(file) :
          /\ traj[k] = RecordTrajectory(LastWithId(file, k))
          /\ trans[k] = RecordTransform(LastWithId(file, k))

\* the file holds one record per key of the maps, with the key as id and
\* the entries' values as floats
SavedUnderKeys(traj, trans, file) ==
    /\ Ids(file) = DOMAIN traj
    /\ Len(file.frame) = Cardinality(DOMAIN traj)
    /\ \A i \in 1..Len(file.frame) :
          LET r == file.frame[i]
          IN /\ r.x = ToFloat(traj[r.id].x)
             /\ r.y = ToFloat(traj[r.id].y)
             /\ r.a = ToFloat(traj[r.id].a)
             /\ r.dx = ToFloat(trans[r.id].dx)
             /\ r.dy = ToFloat(trans[r.id].dy)
             /\ r.da = ToFloat(trans[r.id].da)

\* C1: round trip.  SaveStabilizedData stores every entry under its frame
\* index as the record's id, and a successful LoadStabilizedData (of
\* CVStabilization or Stabilizer) yields maps whose key set is the set of
\* record ids, each id mapped to the values of its record: the id, not the
\* record's position in the file, decides the key.
C1_RoundTripKeyedById ==
    /\ (last.op = "SaveStabilizedData" /\ last.ret) =>
           SavedUnderKeys(trajectoryData, transformationData, disk)
    /\ (last.op = "LoadStabilizedData" /\ last.ret) =>
           KeyedById(trajectoryData, transformationData, disk)
    /\ (last.op \in {"Stabilizer", "EffectLoadStabilizedData"} /\ last.ret) =>
           KeyedById(effectTrajectoryData, effectTransformationData, disk)

\* the two maps hold the records of the file and nothing else
OnlyRecordsOf(traj, trans, file) ==
    /\ DOMAIN traj = DOMAIN trans
    /\ Cardinality(DOMAIN traj) = Len(file.frame)
    /\ \A k \in DOMAIN traj :
          \E i \in 1..Len(file.frame) :
              /\ traj[k] = RecordTrajectory(file.frame[i])
              /\ trans[k] = RecordTransform(file.frame[i])
    /\ \A i \in 1..Len(file.frame) :
          \E k \in DOMAIN traj :
              /\ traj[k] = RecordTrajectory(file.frame[i])
              /\ trans[k] = RecordTransform(file.frame[i])

\* C2: LoadStabilizedData is all-or-nothing.  It returns false exactly
\* when the file cannot be parsed and then leaves both maps as they were;
\* when it returns true both maps hold only the records of the file.
C2_LoadIsAllOrNothing ==
    [][/\ last'.op = "LoadStabilizedData" =>
             /\ last'.ret = disk.parsed
             /\ ~last'.ret =>
                    /\ trajectoryData' = trajectoryData
                    /\ transformationData' = transformationData
             /\ last'.ret =>
                    OnlyRecordsOf(trajectoryData', transformationData', disk)
       /\ last'.op \in {"Stabilizer", "EffectLoadStabilizedData"} =>
             /\ last'.ret = disk.parsed
             /\ ~last'.ret =>
                    /\ effectTrajectoryData' = effectTrajectoryData
                    /\ effectTransformationData' = effectTransformationData
             /\ last'.ret =>
                    OnlyRecordsOf(effectTrajectoryData',
                                  effectTransformationData', disk)]_vars

\* a load has failed on an object that holds data
C2_Witness ==
    /\ last.op = "LoadStabilizedData"
    /\ ~last.ret
    /\ trajectoryData # EmptyMap
    /\ transformationData # EmptyMap

\* C3: GetFrame with a frame_number that is no key of transformationData
\* ends in an error for that call; the frame is never rendered with a
\* default transform in place of the missing entry.
C3_MissingFrameIsAnError ==
    [][(last'.op = "GetFrame"
           /\ last'.frame_number \notin DOMAIN effectTransformationData)
          => ~last'.ret]_vars

\* C8: once a load has completed, GetFrame leaves transformationData as it
\* was, for every frame_number, present in the mapping or not.
C8_GetFrameIsReadOnly ==
    [][(last'.op = "GetFrame" /\ effectTrajectoryData # EmptyMap)
          => effectTransformationData' = effectTransformationData]_vars

====
